---- MODULE Spec2Model ----
(***************************************************************************)
(* Model of the Ecuador macro-data extractors: the HTTP fetcher with       *)
(* bounded retry (ecuador_imf.py, ecuador_worldbank.py), the indicator     *)
(* download loops and wide-panel reshaping of both providers, the FRED     *)
(* category crawler and per-series writer (ecuador_fred.py) and the        *)
(* orchestrator (ecuador_run_all.py).                                      *)
(*                                                                         *)
(* Strings that the code only compares and sorts (indicator codes, labels, *)
(* periods, category and series identifiers) are represented by naturals   *)
(* ordered the way the strings are ordered.  JSON scalars are tagged       *)
(* records so that null, the empty string and the number zero are three    *)
(* different values.                                                       *)
(***************************************************************************)
EXTENDS Integers, Sequences, FiniteSets, TLC

VARIABLES
    \* one call of get_json
    gj_variant,     \* "imf" or "wb": which module's get_json is called
    gj_retries,     \* the retries argument
    gj_outcomes,    \* what each attempt of requests.get would meet
    gj_pc,          \* "call" before the call, "returned" after it
    gj_result       \* what the call returned and did

VARIABLES
    \* one run of a provider pipeline (main of ecuador_imf.py / ecuador_worldbank.py)
    provider,       \* "imf" or "wb"
    indicators,     \* the discovered indicators, in discovery order
    dl_pc,          \* "loop", "panel", "meta", "done"
    dl_i,           \* how many indicators the download loop has processed
    all_data,       \* code -> {period -> value}
    indicator_info, \* World Bank only: code -> descriptive fields
    success, empty, failed,   \* the three counters
    dl_warnings,    \* number of "FAILED: ..." lines get_json printed
    rows,           \* the panel rows
    panel_file,     \* the wide CSV as written, or NoFile
    meta_file,      \* the metadata CSV rows as written, or NoFile
    last_result,    \* what fetch_indicator_data returned in the last iteration
    null_fetches,   \* history: codes whose get_json call returned None
    reported        \* history: code -> the (period, value) pairs with a non-null
                    \* value in the body get_json returned for it

VARIABLES
    \* one call of discover_ecuador_series (ecuador_fred.py)
    tree_parent,    \* the provider's category tree: category -> parent (0 for the root)
    attach,         \* category -> the series identifiers attached to it
    untitled,       \* a category whose series entries carry no "title" (0: none)
    crawl_pc,       \* "crawl" while crawl_category frames are live, then "done"
    stack,          \* the live crawl_category frames, innermost last
    all_series,     \* series id -> label
    crawl_log,      \* the categories named in "Warning: could not fetch series" lines
    visited,        \* history: the categories crawl_category was called on, in order
    series_failed,  \* history: categories whose series request failed
    children_failed \* history: categories whose children request failed

VARIABLES
    \* one call of download_series (ecuador_fred.py)
    series_dict,    \* the {series_id: label} argument, in dict order
    fred_pc,        \* "loop" while the for loop runs, then "done"
    fred_i,         \* how many series the loop has processed
    fred_data,      \* series_id -> the observations kept after dropna
    files,          \* the output directory: file name -> what was last written
    fred_meta,      \* the metadata rows
    fred_errors,    \* the (series_id, label) pairs that failed
    fetched         \* history: series_id -> the observations get_series returned

VARIABLES
    \* one run of the orchestrator (main of ecuador_run_all.py)
    run_pc,         \* "loop", then "done" once the summary is printed
    run_i,          \* index in SCRIPTS of the current iteration
    run_waiting,    \* TRUE while main is blocked inside subprocess.run
    running,        \* the scripts whose subprocess is alive
    results,        \* name -> {"status", "time"}
    summary,        \* the summary lines printed
    start_order,    \* history: the scripts subprocess.run was called for, in order
    record_order    \* history: the scripts a status was recorded for, in order

VARIABLES
    \* one call of fetch_all_indicators (ecuador_worldbank.py)
    fa_pc,          \* "loop" while the while loop runs, then "done"
    fa_page,        \* the local variable page
    fa_indicators,  \* the accumulated records
    fa_requests,    \* history: the page numbers requested, in order
    fa_served       \* history: what get_json returned for each request

fetchVars == <<gj_variant, gj_retries, gj_outcomes, gj_pc, gj_result>>

dlVars == <<provider, indicators, dl_pc, dl_i, all_data, indicator_info, success, empty,
            failed, dl_warnings, rows, panel_file, meta_file, last_result, null_fetches,
            reported>>

crawlVars == <<tree_parent, attach, untitled, crawl_pc, stack, all_series, crawl_log,
               visited, series_failed, children_failed>>

fredVars == <<series_dict, fred_pc, fred_i, fred_data, files, fred_meta, fred_errors,
              fetched>>

runVars == <<run_pc, run_i, run_waiting, running, results, summary, start_order,
             record_order>>

enumVars == <<fa_pc, fa_page, fa_indicators, fa_requests, fa_served>>

vars == <<fetchVars, dlVars, crawlVars, fredVars, runVars, enumVars>>

(***************************************************************************)
(* Bounds of the model.                                                    *)
(***************************************************************************)
MaxRetries == 3
MaxYear == 2
MaxCats == 4
MaxLabelLen == 2
MaxObs == 2
MaxPages == 3

Years == 1..MaxYear

(***************************************************************************)
(* JSON values.                                                            *)
(***************************************************************************)
Null == [t |-> "null", v |-> 0]
EmptyStr == [t |-> "str", v |-> 0]
Num(n) == [t |-> "num", v |-> n]

\* the numbers a provider reports: zero and a non-zero value
Numbers == {Num(0), Num(1)}

EmptyMap == [y \in {} |-> Null]

\* every {period -> value-or-null} object over the modelled periods
Mappings == UNION {[S -> Numbers \cup {Null}] : S \in SUBSET Years}

\* a World Bank observation record {"date": ..., "value": ...}; hasDate is
\* FALSE for a record whose date is missing or empty
WbRecord(hasDate, date, value) == [hasDate |-> hasDate, date |-> date, value |-> value]

WbRecords ==
    {WbRecord(TRUE, y, x) : y \in Years, x \in Numbers \cup {Null}}
        \cup {WbRecord(FALSE, 1, x) : x \in Numbers \cup {Null}}

BoundedSeq(S, n) == UNION {[1..k -> S] : k \in 0..n}

\* Python's None, as returned by get_json
None == [shape |-> "none", len |-> 0, kind |-> "", obs |-> EmptyMap, records |-> <<>>]

\* a parsed IMF body: kind says how deep the nesting goes,
\*   "empty"     {}
\*   "novalues"  an object without the key "values"
\*   "nocode"    {"values": {}}
\*   "nocountry" {"values": {code: {}}}
\*   "data"      {"values": {code: {"ECU": obs}}}
ImfDict(kind, obs) == [shape |-> "dict", len |-> 0, kind |-> kind, obs |-> obs, records |-> <<>>]

\* a parsed World Bank body: a JSON list of n elements whose second element
\* (when n = 2) is the record list; a null second element is the empty list
WbList(n, records) == [shape |-> "list", len |-> n, kind |-> "", obs |-> EmptyMap, records |-> records]

ImfResponses ==
    {ImfDict(k, EmptyMap) : k \in {"empty", "novalues", "nocode", "nocountry"}}
        \cup {ImfDict("data", m) : m \in Mappings}

\* the record lists of the modelled World Bank bodies: up to two records, so
\* that a date can occur twice and two dates can occur together
WbRecordLists == BoundedSeq(WbRecords, 2)

WbResponses ==
    {WbList(1, <<>>)} \cup {WbList(2, rs) : rs \in WbRecordLists}

(***************************************************************************)
(* get_json: one attempt's outcome is an exception (transport error,       *)
(* raise_for_status on a non-2xx status, a body r.json() cannot parse) or  *)
(* a parsed body.                                                          *)
(***************************************************************************)
Failure(kind) == [kind |-> kind, data |-> None]
Parsed(data) == [kind |-> "ok", data |-> data]

FailureKinds == {"transport", "status", "badjson"}

Raises(o) == o.kind \in FailureKinds

\* the value a non-raising attempt returns
ImfReturn(data) == data

WbReturn(data) == IF data.shape = "list" /\ data.len = 2 THEN data ELSE None

ReturnValue(variant, data) == IF variant = "imf" THEN ImfReturn(data) ELSE WbReturn(data)

IsLastAttemptOffByOne(attempt, retries) == ~(attempt < retries)

\* the else branch of "if attempt < retries - 1"
IsLastAttempt(attempt, retries) == ~(attempt < retries - 1)

RECURSIVE get_json_from(_, _, _, _)
get_json_from(variant, retries, outcomes, attempt) ==
    IF attempt >= retries
    THEN \* range(retries) is exhausted: the function falls off its end
         [ret |-> None, warnings |-> 0, attempts |-> attempt, sleeps |-> <<>>]
    ELSE LET o == outcomes[attempt + 1] IN
         IF ~Raises(o)
         THEN [ret |-> ReturnValue(variant, o.data), warnings |-> 0,
               attempts |-> attempt + 1, sleeps |-> <<>>]
         ELSE IF IsLastAttempt(attempt, retries)
         THEN [ret |-> None, warnings |-> 1, attempts |-> attempt + 1, sleeps |-> <<>>]
         ELSE LET rest == get_json_from(variant, retries, outcomes, attempt + 1) IN
              [rest EXCEPT !.sleeps = <<2 ^ attempt>> \o @]

get_json(variant, retries, outcomes) == get_json_from(variant, retries, outcomes, 0)

NoResult == [ret |-> None, warnings |-> 0, attempts |-> 0, sleeps |-> <<>>]

\* the bodies the get_json call under test may meet
SampleResponses ==
    {ImfDict("data", EmptyMap), WbList(2, <<>>), WbList(1, <<>>)}

FetchOutcomes == {Failure(k) : k \in FailureKinds} \cup {Parsed(d) : d \in SampleResponses}

FetchIdle ==
    /\ gj_variant = "imf"
    /\ gj_retries = 0
    /\ gj_outcomes = <<>>
    /\ gj_pc = "idle"
    /\ gj_result = NoResult

FetchStart ==
    /\ gj_variant \in {"imf", "wb"}
    /\ gj_retries \in 0..MaxRetries
    /\ gj_outcomes \in [1..gj_retries -> FetchOutcomes]
    /\ gj_pc = "call"
    /\ gj_result = NoResult

CallGetJson ==
    /\ gj_pc = "call"
    /\ gj_result' = get_json(gj_variant, gj_retries, gj_outcomes)
    /\ gj_pc' = "returned"
    /\ UNCHANGED <<gj_variant, gj_retries, gj_outcomes>>
    /\ UNCHANGED <<dlVars, crawlVars, fredVars, runVars, enumVars>>

(***************************************************************************)
(* The provider pipelines: download loop, panel, metadata.                 *)
(***************************************************************************)
Codes == {1, 2}
Labels == {1, 2}

NoFile == [written |-> FALSE, header |-> <<>>, rows |-> <<>>]
File(header, body) == [written |-> TRUE, header |-> header, rows |-> body]

Indicator(code, label) == [code |-> code, label |-> label]

\* every discovery order of the codes, under every labelling
Discoveries ==
    {s \in [1..Cardinality(Codes) -> {Indicator(c, l) : c \in Codes, l \in Labels}] :
        \A i, j \in DOMAIN s : i # j => s[i].code # s[j].code}

Min(S) == CHOOSE x \in S : \A y \in S : x <= y
Max(S) == CHOOSE x \in S : \A y \in S : y <= x

\* sorted(S) for a set of strings
RECURSIVE Sorted(_)
Sorted(S) == IF S = {} THEN <<>> ELSE <<Min(S)>> \o Sorted(S \ {Min(S)})

\* sorted(items, key=lambda x: x[1]): stable, ascending by label
RECURSIVE InsertByLabel(_, _)
InsertByLabel(x, s) ==
    IF s = <<>> THEN <<x>>
    ELSE IF x.label < Head(s).label THEN <<x>> \o s
    ELSE <<Head(s)>> \o InsertByLabel(x, Tail(s))

RECURSIVE SortedByLabel(_)
SortedByLabel(s) ==
    IF s = <<>> THEN <<>>
    ELSE InsertByLabel(s[Len(s)], SortedByLabel(SubSeq(s, 1, Len(s) - 1)))

\* d[k] = v on a dict
MapPut(m, k, v) == [x \in DOMAIN m \cup {k} |-> IF x = k THEN v ELSE m[x]]

\* d.get(k): None when the key is absent
DictGet(m, k) == IF k \in DOMAIN m THEN m[k] ELSE Null

\* the default of the retries parameter, which every caller uses
DefaultRetries == 3

\* k failing attempts followed by attempts that get the body resp
FailsThen(k, resp) ==
    [j \in 1..DefaultRetries |-> IF j <= k THEN Failure("transport") ELSE Parsed(resp)]

Result(m) == [isNone |-> FALSE, map |-> m]

\* fetch_indicator_data of ecuador_imf.py, on what get_json returned
ImfFetchIndicatorData(data) ==
    IF data.shape = "none" \/ data.kind \in {"empty", "novalues"}
    THEN Result(EmptyMap)
    ELSE IF data.kind \in {"nocode", "nocountry"}
    THEN Result(EmptyMap)
    ELSE Result(data.obs)

\* "if year and value is not None"
WbKeeps(record) == record.hasDate /\ record.value # Null

RECURSIVE WbCollect(_, _)
WbCollect(records, result) ==
    IF records = <<>> THEN result
    ELSE WbCollect(Tail(records),
                   IF WbKeeps(Head(records))
                   THEN MapPut(result, Head(records).date, Head(records).value)
                   ELSE result)

\* fetch_indicator_data of ecuador_worldbank.py, on what get_json returned
WbFetchIndicatorData(resp) ==
    IF resp.shape = "none" \/ resp.records = <<>>
    THEN Result(EmptyMap)
    ELSE Result(WbCollect(resp.records, EmptyMap))

FetchIndicatorData(p, data) ==
    IF p = "imf" THEN ImfFetchIndicatorData(data) ELSE WbFetchIndicatorData(data)

Responses(p) == IF p = "imf" THEN ImfResponses ELSE WbResponses

\* the non-null observations a returned body holds
ReportedIn(data) ==
    IF data.shape = "dict" /\ data.kind = "data"
    THEN {<<y, data.obs[y]>> : y \in {z \in DOMAIN data.obs : data.obs[z] # Null}}
    ELSE IF data.shape = "list"
    THEN {<<data.records[i].date, data.records[i].value>> :
            i \in {j \in DOMAIN data.records :
                     data.records[j].hasDate /\ data.records[j].value # Null}}
    ELSE {}

\* the order in which main visits the indicators
LoopOrder == IF provider = "imf" THEN SortedByLabel(indicators) ELSE indicators

DownloadIdle ==
    /\ provider = "imf"
    /\ indicators = <<>>
    /\ dl_pc = "idle"
    /\ dl_i = 0
    /\ all_data = EmptyMap
    /\ indicator_info = EmptyMap
    /\ success = 0 /\ empty = 0 /\ failed = 0
    /\ dl_warnings = 0
    /\ rows = <<>>
    /\ panel_file = NoFile
    /\ meta_file = NoFile
    /\ last_result = Result(EmptyMap)
    /\ null_fetches = {}
    /\ reported = [c \in Codes |-> {}]

DownloadStart ==
    /\ provider \in {"imf", "wb"}
    /\ indicators \in Discoveries
    /\ dl_pc = "loop"
    /\ dl_i = 0
    /\ all_data = EmptyMap
    /\ indicator_info = EmptyMap
    /\ success = 0 /\ empty = 0 /\ failed = 0
    /\ dl_warnings = 0
    /\ rows = <<>>
    /\ panel_file = NoFile
    /\ meta_file = NoFile
    /\ last_result = Result(EmptyMap)
    /\ null_fetches = {}
    /\ reported = [c \in Codes |-> {}]

\* the counters after one iteration of the IMF loop
ImfCount(result) ==
    IF ~result.isNone /\ DOMAIN result.map # {}
    THEN [success |-> success + 1, empty |-> empty, failed |-> failed]
    ELSE IF ~result.isNone
    THEN [success |-> success, empty |-> empty + 1, failed |-> failed]
    ELSE [success |-> success, empty |-> empty, failed |-> failed + 1]

\* the counters after one iteration of the World Bank loop
WbCount(result) ==
    IF ~result.isNone /\ DOMAIN result.map # {}
    THEN [success |-> success + 1, empty |-> empty, failed |-> failed]
    ELSE [success |-> success, empty |-> empty + 1, failed |-> failed]

\* one iteration of the download loop of main
DownloadIndicator ==
    /\ dl_pc = "loop"
    /\ dl_i < Len(LoopOrder)
    /\ \E k \in 0..DefaultRetries, resp \in Responses(provider) :
         LET ind == LoopOrder[dl_i + 1]
             got == get_json(provider, DefaultRetries, FailsThen(k, resp))
             result == FetchIndicatorData(provider, got.ret)
             hasData == ~result.isNone /\ DOMAIN result.map # {}
             count == IF provider = "imf" THEN ImfCount(result) ELSE WbCount(result)
         IN  /\ dl_warnings' = dl_warnings + got.warnings
             /\ last_result' = result
             /\ null_fetches' = IF got.ret = None THEN null_fetches \cup {ind.code}
                                ELSE null_fetches
             /\ reported' = [reported EXCEPT ![ind.code] = ReportedIn(got.ret)]
             /\ all_data' = IF hasData THEN MapPut(all_data, ind.code, result.map)
                            ELSE all_data
             /\ indicator_info' = IF hasData /\ provider = "wb"
                                  THEN MapPut(indicator_info, ind.code,
                                              [code |-> ind.code, name |-> ind.label])
                                  ELSE indicator_info
             /\ success' = count.success
             /\ empty' = count.empty
             /\ failed' = count.failed
    /\ dl_i' = dl_i + 1
    /\ UNCHANGED <<provider, indicators, dl_pc, rows, panel_file, meta_file>>
    /\ UNCHANGED <<fetchVars, crawlVars, fredVars, runVars, enumVars>>

ColumnName(label, code) == [label |-> label, code |-> code]

RenderCellFalsy(value) == IF value # Null /\ value # Num(0) THEN value ELSE EmptyStr

\* value if value is not None else ""
RenderCell(value) == IF value # Null THEN value ELSE EmptyStr

\* all_years: the union of the keys of the downloaded series
AllYears(data) == UNION {DOMAIN data[c] : c \in DOMAIN data}

\* build_panel of ecuador_imf.py
ImfBuildPanel(data, kept) ==
    LET years == Sorted(AllYears(data))
        cols == SortedByLabel(kept)
    IN  [r \in 1..Len(years) |->
            [Year |-> years[r],
             cells |-> [j \in 1..Len(cols) |->
                          [name |-> ColumnName(cols[j].label, cols[j].code),
                           value |-> RenderCell(
                               DictGet(IF cols[j].code \in DOMAIN data
                                       THEN data[cols[j].code] ELSE EmptyMap,
                                       years[r]))]]]]

\* the wide-table loop of main in ecuador_worldbank.py
WbBuildPanel(data, info) ==
    LET years == Sorted(AllYears(data))
        cols == Sorted(DOMAIN data)
    IN  [r \in 1..Len(years) |->
            [Year |-> years[r],
             cells |-> [j \in 1..Len(cols) |->
                          [name |-> ColumnName(info[cols[j]].name, cols[j]),
                           value |-> RenderCell(DictGet(data[cols[j]], years[r]))]]]]

IsKept(ind) == ind.code \in DOMAIN all_data

\* kept = {k: v for k, v in indicators.items() if k in all_data}
Kept == SelectSeq(indicators, IsKept)

\* rows[0].keys()
FieldNames(rs) == <<"Year">> \o [j \in 1..Len(rs[1].cells) |-> rs[1].cells[j].name]

\* after the loop: the rows of the panel, and the wide CSV when there are rows
BuildPanel ==
    /\ dl_pc = "loop"
    /\ dl_i = Len(LoopOrder)
    /\ LET rs == IF provider = "imf" THEN ImfBuildPanel(all_data, Kept)
                 ELSE WbBuildPanel(all_data, indicator_info)
       IN  /\ rows' = rs
           /\ panel_file' = IF rs # <<>> THEN File(FieldNames(rs), rs) ELSE NoFile
    /\ dl_pc' = "meta"
    /\ UNCHANGED <<provider, indicators, dl_i, all_data, indicator_info, success, empty,
                   failed, dl_warnings, meta_file, last_result, null_fetches, reported>>
    /\ UNCHANGED <<fetchVars, crawlVars, fredVars, runVars, enumVars>>

\* years_available: "{years[0]}-{years[-1]}" of the sorted keys, or ""
Span(series) ==
    LET years == Sorted(DOMAIN series) IN
    IF years # <<>> THEN <<years[1], years[Len(years)]>> ELSE <<>>

ImfMetaRows ==
    LET order == SortedByLabel(Kept) IN
    [j \in 1..Len(order) |->
        [code |-> order[j].code, label |-> order[j].label,
         years_available |-> Span(all_data[order[j].code])]]

WbMetaRows ==
    LET order == Sorted(DOMAIN indicator_info) IN
    [j \in 1..Len(order) |->
        [code |-> order[j], label |-> indicator_info[order[j]].name,
         years_available |-> Span(all_data[order[j]])]]

\* the metadata CSV
WriteMetadata ==
    /\ dl_pc = "meta"
    /\ meta_file' = File(<<"code", "label", "years_available">>,
                         IF provider = "imf" THEN ImfMetaRows ELSE WbMetaRows)
    /\ dl_pc' = "done"
    /\ UNCHANGED <<provider, indicators, dl_i, all_data, indicator_info, success, empty,
                   failed, dl_warnings, rows, panel_file, last_result, null_fetches,
                   reported>>
    /\ UNCHANGED <<fetchVars, crawlVars, fredVars, runVars, enumVars>>
(***************************************************************************)
(* The FRED category crawler: discover_ecuador_series and its nested       *)
(* crawl_category, the recursion kept as an explicit stack of frames.      *)
(***************************************************************************)
\* stands for ECUADOR_CATEGORY_ID
Root == 1

Cats == 1..MaxCats
SeriesIds == {1, 2}

\* the trees over Cats rooted at Root: every other category hangs under a
\* category of a smaller number
Trees == {p \in [Cats -> 0..MaxCats] :
            /\ p[Root] = 0
            /\ \A c \in Cats \ {Root} : p[c] \in 1..(c - 1)}

\* no category, or the last one, reports its series without titles
UntitledChoices == {0, MaxCats}

\* the "categories" list the provider returns for a category
ChildrenOf(c) == Sorted({d \in Cats : tree_parent[d] = c})

\* the "seriess" list the provider returns for a category
EntriesOf(c) ==
    LET ids == Sorted(attach[c]) IN
    [j \in 1..Len(ids) |-> [id |-> ids[j], hasTitle |-> c # untitled, title |-> c]]

\* s.get("title", s["id"])
TitleOrId(entry) == IF entry.hasTitle THEN <<"title", entry.title>> ELSE <<"id", entry.id>>

RecordSeriesFirstWins(series, entry) ==
    IF entry.id \in DOMAIN series THEN series ELSE MapPut(series, entry.id, TitleOrId(entry))

\* all_series[s["id"]] = s.get("title", s["id"])
RecordSeries(series, entry) == MapPut(series, entry.id, TitleOrId(entry))

RECURSIVE RecordAll(_, _)
RecordAll(series, entries) ==
    IF entries = <<>> THEN series
    ELSE RecordAll(RecordSeries(series, Head(entries)), Tail(entries))

Frame(c, pc, kids, depth) == [cat |-> c, pc |-> pc, kids |-> kids, depth |-> depth]

Top == stack[Len(stack)]

SetTop(f) == [stack EXCEPT ![Len(stack)] = f]

CrawlIdle ==
    /\ tree_parent = [c \in Cats |-> 0]
    /\ attach = [c \in Cats |-> {}]
    /\ untitled = 0
    /\ crawl_pc = "idle"
    /\ stack = <<>>
    /\ all_series = EmptyMap
    /\ crawl_log = <<>>
    /\ visited = <<>>
    /\ series_failed = {}
    /\ children_failed = {}

\* discover_ecuador_series has just called crawl_category(ECUADOR_CATEGORY_ID)
CrawlStart ==
    /\ tree_parent \in Trees
    /\ attach \in [Cats -> SUBSET SeriesIds]
    /\ untitled \in UntitledChoices
    /\ crawl_pc = "crawl"
    /\ stack = <<Frame(Root, "series", <<>>, 0)>>
    /\ all_series = EmptyMap
    /\ crawl_log = <<>>
    /\ visited = <<>>
    /\ series_failed = {}
    /\ children_failed = {}

AtSeries == crawl_pc = "crawl" /\ stack # <<>> /\ Top.pc = "series"
AtChildren == crawl_pc = "crawl" /\ stack # <<>> /\ Top.pc = "children"
AtLoop == crawl_pc = "crawl" /\ stack # <<>> /\ Top.pc = "loop"

\* the first try block, the request answered with the category's series
FetchSeriesOk ==
    /\ AtSeries
    /\ all_series' = RecordAll(all_series, EntriesOf(Top.cat))
    /\ visited' = Append(visited, Top.cat)
    /\ stack' = SetTop([Top EXCEPT !.pc = "children"])
    /\ UNCHANGED <<tree_parent, attach, untitled, crawl_pc, crawl_log, series_failed,
                   children_failed>>
    /\ UNCHANGED <<fetchVars, dlVars, fredVars, runVars, enumVars>>

\* the first try block raising: the request fails (n = 0), or entry n + 1 of
\* the answer has no "id" after the n entries before it were recorded
FetchSeriesFails ==
    /\ AtSeries
    /\ \E n \in 0..Len(EntriesOf(Top.cat)) :
         /\ n < Len(EntriesOf(Top.cat)) \/ n = 0
         /\ all_series' = RecordAll(all_series, SubSeq(EntriesOf(Top.cat), 1, n))
    /\ crawl_log' = Append(crawl_log, Top.cat)
    /\ visited' = Append(visited, Top.cat)
    /\ series_failed' = series_failed \cup {Top.cat}
    /\ stack' = SetTop([Top EXCEPT !.pc = "children"])
    /\ UNCHANGED <<tree_parent, attach, untitled, crawl_pc, children_failed>>
    /\ UNCHANGED <<fetchVars, dlVars, fredVars, runVars, enumVars>>

\* the second try block, the request answered with the category's children
FetchChildrenOk ==
    /\ AtChildren
    /\ stack' = SetTop([Top EXCEPT !.pc = "loop", !.kids = ChildrenOf(Top.cat)])
    /\ UNCHANGED <<tree_parent, attach, untitled, crawl_pc, all_series, crawl_log, visited,
                   series_failed, children_failed>>
    /\ UNCHANGED <<fetchVars, dlVars, fredVars, runVars, enumVars>>

\* the second try block raising: the request fails (n = 0), or entry n + 1 of
\* the answer has no "name" or "id"; the n children before it are crawled and
\* then "except Exception: pass" ends the loop
FetchChildrenFails ==
    /\ AtChildren
    /\ \E n \in 0..Len(ChildrenOf(Top.cat)) :
         /\ n < Len(ChildrenOf(Top.cat)) \/ n = 0
         /\ stack' = SetTop([Top EXCEPT !.pc = "loop",
                                        !.kids = SubSeq(ChildrenOf(Top.cat), 1, n)])
    /\ children_failed' = children_failed \cup {Top.cat}
    /\ UNCHANGED <<tree_parent, attach, untitled, crawl_pc, all_series, crawl_log, visited,
                   series_failed>>
    /\ UNCHANGED <<fetchVars, dlVars, fredVars, runVars, enumVars>>

\* for child in children: crawl_category(child["id"], depth + 1)
Descend ==
    /\ AtLoop
    /\ Top.kids # <<>>
    /\ stack' = Append(SetTop([Top EXCEPT !.kids = Tail(Top.kids)]),
                       Frame(Head(Top.kids), "series", <<>>, Top.depth + 1))
    /\ UNCHANGED <<tree_parent, attach, untitled, crawl_pc, all_series, crawl_log, visited,
                   series_failed, children_failed>>
    /\ UNCHANGED <<fetchVars, dlVars, fredVars, runVars, enumVars>>

\* crawl_category returns; the outermost return ends discover_ecuador_series
Return ==
    /\ AtLoop
    /\ Top.kids = <<>>
    /\ stack' = SubSeq(stack, 1, Len(stack) - 1)
    /\ crawl_pc' = IF Len(stack) = 1 THEN "done" ELSE "crawl"
    /\ UNCHANGED <<tree_parent, attach, untitled, all_series, crawl_log, visited,
                   series_failed, children_failed>>
    /\ UNCHANGED <<fetchVars, dlVars, fredVars, runVars, enumVars>>

(***************************************************************************)
(* download_series of ecuador_fred.py.  A label is a sequence of           *)
(* characters; _label_to_filename is computed character by character.      *)
(***************************************************************************)
LabelChars == {"a", "A", "%", "-"}

FredLabels == BoundedSeq(LabelChars, MaxLabelLen)

FredIds == {1, 2}

\* the characters [a-z0-9] that occur in the modelled file names
AlnumChars == {"a", "p", "c", "t", "n", "d"}

\* label.lower()
LowerChar(ch) == IF ch = "A" THEN "a" ELSE ch

\* .replace("%", "pct").replace("&", "and").replace("/", "_")
ReplaceChar(ch) ==
    CASE ch = "%" -> <<"p", "c", "t">>
      [] ch = "&" -> <<"a", "n", "d">>
      [] ch = "/" -> <<"_">>
      [] OTHER -> <<ch>>

RECURSIVE ReplaceAll(_)
ReplaceAll(s) == IF s = <<>> THEN <<>> ELSE ReplaceChar(Head(s)) \o ReplaceAll(Tail(s))

\* re.sub(r"[^a-z0-9]+", "_", s): every run of other characters becomes one "_";
\* inRun says that the character before s was part of such a run
RECURSIVE CollapseRuns(_, _)
CollapseRuns(s, inRun) ==
    IF s = <<>> THEN <<>>
    ELSE IF Head(s) \in AlnumChars THEN <<Head(s)>> \o CollapseRuns(Tail(s), FALSE)
    ELSE IF inRun THEN CollapseRuns(Tail(s), TRUE)
    ELSE <<"_">> \o CollapseRuns(Tail(s), TRUE)

\* s.strip("_")
RECURSIVE StripUnderscores(_)
StripUnderscores(s) ==
    IF s = <<>> THEN <<>>
    ELSE IF Head(s) = "_" THEN StripUnderscores(Tail(s))
    ELSE IF s[Len(s)] = "_" THEN StripUnderscores(SubSeq(s, 1, Len(s) - 1))
    ELSE s

\* _label_to_filename
LabelToFilename(label) ==
    StripUnderscores(
        CollapseRuns(ReplaceAll([j \in 1..Len(label) |-> LowerChar(label[j])]), FALSE))

NaN == [t |-> "nan", v |-> 0]

\* what fred.get_series may return
FredSeries == BoundedSeq(Numbers \cup {NaN}, MaxObs)

IsNotNaN(x) == x # NaN

\* series.dropna()
DropNa(series) == SelectSeq(series, IsNotNaN)

FredIdle ==
    /\ series_dict = <<>>
    /\ fred_pc = "idle"
    /\ fred_i = 0
    /\ fred_data = EmptyMap
    /\ files = EmptyMap
    /\ fred_meta = <<>>
    /\ fred_errors = <<>>
    /\ fetched = EmptyMap

FredStart ==
    /\ series_dict \in {<<[id |-> 1, label |-> a], [id |-> 2, label |-> b]>> :
                          a \in FredLabels, b \in FredLabels}
    /\ fred_pc = "loop"
    /\ fred_i = 0
    /\ fred_data = EmptyMap
    /\ files = EmptyMap
    /\ fred_meta = <<>>
    /\ fred_errors = <<>>
    /\ fetched = EmptyMap

FredCurrent == series_dict[fred_i + 1]

FredAdvance ==
    /\ fred_i' = fred_i + 1
    /\ fred_pc' = IF fred_i + 1 = Len(series_dict) THEN "done" ELSE "loop"

\* an iteration in which fred.get_series raises
SeriesFails ==
    /\ fred_pc = "loop"
    /\ fred_errors' = Append(fred_errors, FredCurrent)
    /\ FredAdvance
    /\ UNCHANGED <<series_dict, fred_data, files, fred_meta, fetched>>
    /\ UNCHANGED <<fetchVars, dlVars, crawlVars, runVars, enumVars>>

\* an iteration in which the series has no observation left after dropna
SeriesEmpty ==
    /\ fred_pc = "loop"
    /\ \E series \in FredSeries :
         /\ Len(DropNa(series)) = 0
         /\ fetched' = MapPut(fetched, FredCurrent.id, series)
    /\ FredAdvance
    /\ UNCHANGED <<series_dict, fred_data, files, fred_meta, fred_errors>>
    /\ UNCHANGED <<fetchVars, dlVars, crawlVars, runVars, enumVars>>

\* an iteration that keeps the series, writes its CSV and collects metadata
\* (the short row when fred.get_series_info raises)
SeriesSaved ==
    /\ fred_pc = "loop"
    /\ \E series \in FredSeries, infoOk \in BOOLEAN :
         LET kept == DropNa(series)
             fname == LabelToFilename(FredCurrent.label)
         IN  /\ Len(kept) # 0
             /\ fetched' = MapPut(fetched, FredCurrent.id, series)
             /\ fred_data' = MapPut(fred_data, FredCurrent.id, kept)
             /\ files' = MapPut(files, fname, [owner |-> FredCurrent.id, rows |-> kept])
             /\ fred_meta' = Append(fred_meta,
                                    [series_id |-> FredCurrent.id, filename |-> fname,
                                     label |-> FredCurrent.label, full |-> infoOk])
    /\ FredAdvance
    /\ UNCHANGED <<series_dict, fred_errors>>
    /\ UNCHANGED <<fetchVars, dlVars, crawlVars, runVars, enumVars>>

(***************************************************************************)
(* The orchestrator: main of ecuador_run_all.py.                           *)
(***************************************************************************)
SCRIPTS == <<"IMF DataMapper", "World Bank (WDI)", "FRED">>

\* timeout=1800 of subprocess.run
Timeout == 1800

\* the elapsed times of a script that ends before the timeout
ElapsedChoices == {1, Timeout - 1}

RunIdle ==
    /\ run_pc = "idle"
    /\ run_i = 1
    /\ run_waiting = FALSE
    /\ running = {}
    /\ results = EmptyMap
    /\ summary = <<>>
    /\ start_order = <<>>
    /\ record_order = <<>>

RunStart ==
    /\ run_pc = "loop"
    /\ run_i = 1
    /\ run_waiting = FALSE
    /\ running = {}
    /\ results = EmptyMap
    /\ summary = <<>>
    /\ start_order = <<>>
    /\ record_order = <<>>

NextIterationStopsOnTimeout(i, status) ==
    IF status = "TIMEOUT" THEN Len(SCRIPTS) + 1 ELSE i + 1

\* the for loop goes on to the next script whatever status was recorded
NextIteration(i, status) == i + 1

\* results[name] = {...} and on to the next iteration
Record(status, time) ==
    /\ results' = MapPut(results, SCRIPTS[run_i], [status |-> status, time |-> time])
    /\ record_order' = Append(record_order, SCRIPTS[run_i])
    /\ run_i' = NextIteration(run_i, status)
    /\ run_waiting' = FALSE

\* subprocess.run starts the child and blocks
StartScript ==
    /\ run_pc = "loop" /\ run_i <= Len(SCRIPTS) /\ ~run_waiting
    /\ running' = running \cup {SCRIPTS[run_i]}
    /\ start_order' = Append(start_order, SCRIPTS[run_i])
    /\ run_waiting' = TRUE
    /\ UNCHANGED <<run_pc, run_i, results, summary, record_order>>
    /\ UNCHANGED <<fetchVars, dlVars, crawlVars, fredVars, enumVars>>

\* subprocess.run raises before a child exists (the except Exception branch)
LaunchRaises ==
    /\ run_pc = "loop" /\ run_i <= Len(SCRIPTS) /\ ~run_waiting
    /\ start_order' = Append(start_order, SCRIPTS[run_i])
    /\ Record("FAILED", 0)
    /\ UNCHANGED <<run_pc, running, summary>>
    /\ UNCHANGED <<fetchVars, dlVars, crawlVars, fredVars, enumVars>>

\* the child exits within the timeout, with return code 0 or not
ScriptExits ==
    /\ run_pc = "loop" /\ run_waiting
    /\ \E ok \in BOOLEAN, elapsed \in ElapsedChoices :
         Record(IF ok THEN "OK" ELSE "ERROR", elapsed)
    /\ running' = running \ {SCRIPTS[run_i]}
    /\ UNCHANGED <<run_pc, summary, start_order>>
    /\ UNCHANGED <<fetchVars, dlVars, crawlVars, fredVars, enumVars>>

\* the timeout expires: subprocess.run kills the child, waits for it and
\* raises TimeoutExpired
ScriptTimesOut ==
    /\ run_pc = "loop" /\ run_waiting
    /\ Record("TIMEOUT", Timeout)
    /\ running' = running \ {SCRIPTS[run_i]}
    /\ UNCHANGED <<run_pc, summary, start_order>>
    /\ UNCHANGED <<fetchVars, dlVars, crawlVars, fredVars, enumVars>>

\* status.get("status", "?") of results.get(name, {})
StatusOf(name) == IF name \in DOMAIN results THEN results[name].status ELSE "?"

\* the final audit loop, one line per script
PrintSummary ==
    /\ run_pc = "loop" /\ run_i > Len(SCRIPTS) /\ ~run_waiting
    /\ summary' = [j \in 1..Len(SCRIPTS) |-> [name |-> SCRIPTS[j], status |-> StatusOf(SCRIPTS[j])]]
    /\ run_pc' = "done"
    /\ UNCHANGED <<run_i, run_waiting, running, results, start_order, record_order>>
    /\ UNCHANGED <<fetchVars, dlVars, crawlVars, fredVars, enumVars>>

(***************************************************************************)
(* The World Bank indicator enumerator: fetch_all_indicators.              *)
(***************************************************************************)
\* a parsed listing body [meta, records]; hasPages is FALSE when meta has no
\* "pages" key
WbPage(hasPages, pages, records) ==
    [shape |-> "list", len |-> 2, kind |-> "", obs |-> EmptyMap, records |-> records,
     hasPages |-> hasPages, pages |-> pages]

\* the record lists a listing page may hold
PageRecordLists == BoundedSeq({Indicator(c, c) : c \in Codes}, 2)

PageResponses ==
    {WbList(1, <<>>)}
        \cup {WbPage(TRUE, n, rs) : n \in 1..MaxPages, rs \in PageRecordLists}
        \cup {WbPage(FALSE, 1, rs) : rs \in PageRecordLists}

\* meta.get("pages", 1)
PagesOf(resp) == IF resp.hasPages THEN resp.pages ELSE 1

\* "if not resp or not resp[1]"
NothingFetched(resp) == resp.shape = "none" \/ resp.records = <<>>

IsLastPageOffByOne(page, resp) == page > PagesOf(resp)

\* "if page >= meta.get("pages", 1)"
IsLastPage(page, resp) == page >= PagesOf(resp)

EnumIdle ==
    /\ fa_pc = "idle"
    /\ fa_page = 1
    /\ fa_indicators = <<>>
    /\ fa_requests = <<>>
    /\ fa_served = <<>>

EnumStart ==
    /\ fa_pc = "loop"
    /\ fa_page = 1
    /\ fa_indicators = <<>>
    /\ fa_requests = <<>>
    /\ fa_served = <<>>

\* what get_json returns for the request of one page
PageFetches ==
    {get_json("wb", DefaultRetries, FailsThen(k, resp)).ret :
        k \in 0..DefaultRetries, resp \in PageResponses}

\* an iteration that breaks at once: the request failed or the page is empty
FetchPageNothing ==
    /\ fa_pc = "loop"
    /\ \E resp \in PageFetches :
         /\ NothingFetched(resp)
         /\ fa_served' = Append(fa_served, resp)
    /\ fa_requests' = Append(fa_requests, fa_page)
    /\ fa_pc' = "done"
    /\ UNCHANGED <<fa_page, fa_indicators>>
    /\ UNCHANGED <<fetchVars, dlVars, crawlVars, fredVars, runVars>>

\* an iteration that extends the list and breaks: the last page
FetchLastPage ==
    /\ fa_pc = "loop"
    /\ \E resp \in PageFetches :
         /\ ~NothingFetched(resp)
         /\ IsLastPage(fa_page, resp)
         /\ fa_served' = Append(fa_served, resp)
         /\ fa_indicators' = fa_indicators \o resp.records
    /\ fa_requests' = Append(fa_requests, fa_page)
    /\ fa_pc' = "done"
    /\ UNCHANGED <<fa_page>>
    /\ UNCHANGED <<fetchVars, dlVars, crawlVars, fredVars, runVars>>

\* an iteration that extends the list and goes on to the next page
FetchNextPage ==
    /\ fa_pc = "loop"
    /\ \E resp \in PageFetches :
         /\ ~NothingFetched(resp)
         /\ ~IsLastPage(fa_page, resp)
         /\ fa_served' = Append(fa_served, resp)
         /\ fa_indicators' = fa_indicators \o resp.records
    /\ fa_requests' = Append(fa_requests, fa_page)
    /\ fa_page' = fa_page + 1
    /\ UNCHANGED <<fa_pc>>
    /\ UNCHANGED <<fetchVars, dlVars, crawlVars, fredVars, runVars>>

(***************************************************************************)
(* Specifications.                                                         *)
(***************************************************************************)
InitFetch == FetchStart /\ DownloadIdle /\ CrawlIdle /\ FredIdle /\ RunIdle /\ EnumIdle

NextFetch == CallGetJson

SpecFetch == InitFetch /\ [][NextFetch]_vars

InitDownload == FetchIdle /\ DownloadStart /\ CrawlIdle /\ FredIdle /\ RunIdle /\ EnumIdle

NextDownload == DownloadIndicator \/ BuildPanel \/ WriteMetadata

SpecDownload == InitDownload /\ [][NextDownload]_vars

InitCrawl == FetchIdle /\ DownloadIdle /\ CrawlStart /\ FredIdle /\ RunIdle /\ EnumIdle

\* a crawl in which every request succeeds
NextCrawlOk == FetchSeriesOk \/ FetchChildrenOk \/ Descend \/ Return

SpecCrawlOk == InitCrawl /\ [][NextCrawlOk]_vars

NextCrawl == NextCrawlOk \/ FetchSeriesFails \/ FetchChildrenFails

SpecCrawl == InitCrawl /\ [][NextCrawl]_vars

InitFred == FetchIdle /\ DownloadIdle /\ CrawlIdle /\ FredStart /\ RunIdle /\ EnumIdle

NextFred == SeriesFails \/ SeriesEmpty \/ SeriesSaved

SpecFred == InitFred /\ [][NextFred]_vars

InitRunAll == FetchIdle /\ DownloadIdle /\ CrawlIdle /\ FredIdle /\ RunStart /\ EnumIdle

NextRunAll == StartScript \/ LaunchRaises \/ ScriptExits \/ ScriptTimesOut \/ PrintSummary

SpecRunAll == InitRunAll /\ [][NextRunAll]_vars

InitEnum == FetchIdle /\ DownloadIdle /\ CrawlIdle /\ FredIdle /\ RunIdle /\ EnumStart

NextEnum == FetchPageNothing \/ FetchLastPage \/ FetchNextPage

SpecEnum == InitEnum /\ [][NextEnum]_vars

(***************************************************************************)
(* Properties.                                                             *)
(***************************************************************************)
\* index of the first attempt that does not raise, 0 when every attempt raises
FirstSuccess(outcomes) ==
    IF \E k \in DOMAIN outcomes : ~Raises(outcomes[k])
    THEN Min({k \in DOMAIN outcomes : ~Raises(outcomes[k])})
    ELSE 0

IsList2(data) == data.shape = "list" /\ data.len = 2

\* C1 as stated: with retries >= 1, get_json returns the parsed body of the
\* first attempt that does not fail, returns null with exactly one warning when
\* all attempts fail, and never makes more than retries attempts.
C1_ReturnsParsedResponse ==
    (gj_pc = "returned" /\ gj_retries >= 1) =>
        LET k == FirstSuccess(gj_outcomes) IN
        /\ gj_result.attempts <= gj_retries
        /\ k # 0 => gj_result.ret = gj_outcomes[k].data
        /\ k = 0 => (gj_result.ret = None /\ gj_result.warnings = 1)

\* C1 amended: as C1, except that the World Bank get_json returns the parsed
\* body only when it is a two-element list and otherwise returns null, with no
\* warning and no further attempt; a call that meets a non-failing attempt
\* stops at it and logs nothing.
C1_Amended ==
    (gj_pc = "returned" /\ gj_retries >= 1) =>
        LET k == FirstSuccess(gj_outcomes) IN
        /\ gj_result.attempts <= gj_retries
        /\ k # 0 =>
            /\ gj_result.attempts = k
            /\ gj_result.warnings = 0
            /\ gj_result.ret =
                 IF gj_variant = "imf" \/ IsList2(gj_outcomes[k].data)
                 THEN gj_outcomes[k].data ELSE None
        /\ k = 0 =>
            /\ gj_result.ret = None
            /\ gj_result.warnings = 1
            /\ gj_result.attempts = gj_retries

\* fail, fail, succeed with retries = 3, and all three attempts failing
C1_Witness ==
    /\ gj_pc = "returned"
    /\ gj_variant = "wb"
    /\ gj_retries = 3
    /\ Raises(gj_outcomes[1]) /\ Raises(gj_outcomes[2]) /\ ~Raises(gj_outcomes[3])
    /\ gj_result.ret = gj_outcomes[3].data
    /\ gj_result.ret # None
    /\ gj_result.attempts = 3

\* C2: the counters distinguish the three outcomes: an indicator whose
\* get_json call returned null is counted as failed and not as empty, and is
\* not in the panel data.
C2_FailedIsCounted ==
    /\ failed = Cardinality(null_fetches)
    /\ success = Cardinality(DOMAIN all_data)
    /\ success + empty + failed = dl_i
    /\ null_fetches \cap DOMAIN all_data = {}

\* C3: the mapping fetch_indicator_data returns holds no null value.
C3_NoNullValue ==
    \A y \in DOMAIN last_result.map : last_result.map[y] # Null

HasObservation(c, y) == \E x \in Numbers : <<y, x>> \in reported[c]

ObservedYears == {y \in Years : \E c \in Codes : HasObservation(c, y)}

PanelBuilt == dl_pc \in {"meta", "done"}

\* C4: the row periods of the panel are, in ascending order and once each,
\* exactly the periods with a non-null observation in some indicator.
C4_RowsAreObservedPeriods ==
    PanelBuilt => [r \in 1..Len(rows) |-> rows[r].Year] = Sorted(ObservedYears)

\* C5: a panel cell is the empty string exactly when its indicator has no
\* observation for the row's period, and otherwise it is an observed value of
\* that indicator and period (zero stays zero).
C5_EmptyIffUnobserved ==
    PanelBuilt =>
        \A r \in 1..Len(rows) : \A j \in 1..Len(rows[r].cells) :
            LET cell == rows[r].cells[j] IN
            /\ cell.value = EmptyStr <=> ~HasObservation(cell.name.code, rows[r].Year)
            /\ cell.value # EmptyStr =>
                   <<rows[r].Year, cell.value>> \in reported[cell.name.code]
            /\ reported[cell.name.code] \cap {<<rows[r].Year, x>> : x \in Numbers}
                   = {<<rows[r].Year, Num(0)>>} => cell.value = Num(0)

\* a row that holds both an observed zero and a blank
C5_Witness ==
    /\ dl_pc = "done"
    /\ \E r \in 1..Len(rows) : \E j, k \in 1..Len(rows[r].cells) :
          /\ rows[r].cells[j].value = Num(0)
          /\ rows[r].cells[k].value = EmptyStr

LabelOf(code) ==
    LET i == CHOOSE n \in DOMAIN indicators : indicators[n].code = code IN
    indicators[i].label

\* C6: in every row the columns are those of the indicators with data, each
\* named "{label} [{code}]", in ascending order of label.
C6_ColumnsByLabel ==
    PanelBuilt =>
        \A r \in 1..Len(rows) :
            LET cells == rows[r].cells IN
            /\ {cells[j].name.code : j \in 1..Len(cells)} = DOMAIN all_data
            /\ Len(cells) = Cardinality(DOMAIN all_data)
            /\ \A j \in 1..Len(cells) :
                   cells[j].name = ColumnName(LabelOf(cells[j].name.code), cells[j].name.code)
            /\ \A j, k \in 1..Len(cells) :
                   j < k => cells[j].name.label <= cells[k].name.label
            /\ [j \in 1..Len(cells) |-> cells[j].name]
                   = [j \in 1..Len(rows[1].cells) |-> rows[1].cells[j].name]

\* the categories of the tree in depth-first (pre-)order, children in the
\* order the provider lists them
RECURSIVE PreorderOf(_)
PreorderOf(cs) ==
    IF cs = <<>> THEN <<>>
    ELSE <<Head(cs)>> \o PreorderOf(ChildrenOf(Head(cs))) \o PreorderOf(Tail(cs))

Preorder == PreorderOf(<<Root>>)

AllAttached == UNION {attach[c] : c \in Cats}

\* the last category, in depth-first order, that has series s attached
LastCatWith(s) == Preorder[Max({i \in DOMAIN Preorder : s \in attach[Preorder[i]]})]

\* C7: when every request succeeds, the crawl returns exactly the distinct
\* series identifiers attached anywhere in the tree, each once, labelled by the
\* last category visited in depth-first order that has it.
C7_DistinctSeriesLastWins ==
    crawl_pc = "done" =>
        /\ visited = Preorder
        /\ DOMAIN all_series = AllAttached
        /\ \A s \in AllAttached :
              all_series[s] = IF LastCatWith(s) = untitled THEN <<"id", s>>
                              ELSE <<"title", LastCatWith(s)>>

\* a series attached to two categories of different branches, the one visited
\* last not being the one numbered last
C7_Witness ==
    /\ crawl_pc = "done"
    /\ Preorder = <<1, 2, 4, 3>>
    /\ \E s \in SeriesIds :
          /\ {c \in Cats : s \in attach[c]} = {3, 4}
          /\ all_series[s] = <<"title", 3>>
    /\ Cardinality(DOMAIN all_series) = 2

RECURSIVE Ancestors(_)
Ancestors(c) == IF tree_parent[c] = 0 THEN {} ELSE {tree_parent[c]} \cup Ancestors(tree_parent[c])

VisitedSet == {visited[i] : i \in DOMAIN visited}

\* C8: whichever requests fail, every failure is logged, the crawl ends
\* normally, every category all of whose ancestors' children requests succeeded
\* is visited, and the series of every visited category whose series request
\* succeeded are in the result.
C8_FailuresLoggedCrawlContinues ==
    crawl_pc = "done" =>
        /\ Len(crawl_log) = Cardinality(series_failed) + Cardinality(children_failed)
        /\ \A c \in Cats : Ancestors(c) \cap children_failed = {} => c \in VisitedSet
        /\ \A c \in VisitedSet \ series_failed : attach[c] \subseteq DOMAIN all_series

\* C8 without the logging of failed children requests
C8_CrawlContinues ==
    crawl_pc = "done" =>
        /\ Len(crawl_log) = Cardinality(series_failed)
        /\ \A c \in Cats : Ancestors(c) \cap children_failed = {} => c \in VisitedSet
        /\ \A c \in VisitedSet \ series_failed : attach[c] \subseteq DOMAIN all_series

NonNullCount(series) == Cardinality({j \in DOMAIN series : series[j] # NaN})

LabelOfSeries(id) ==
    LET i == CHOOSE n \in DOMAIN series_dict : series_dict[n].id = id IN
    series_dict[i].label

\* C9: after download_series, every series with at least one non-null
\* observation has its own CSV file, not overwritten by another series, with
\* one data row per non-null observation.
C9_OneFilePerSeries ==
    fred_pc = "done" =>
        \A id \in DOMAIN fetched :
            NonNullCount(fetched[id]) >= 1 =>
                LET fname == LabelToFilename(LabelOfSeries(id)) IN
                /\ fname \in DOMAIN files
                /\ files[fname].owner = id
                /\ Len(files[fname].rows) = NonNullCount(fetched[id])

\* C10: the pipelines are started in the order IMF, World Bank, FRED, one
\* after another and never two at once, each exactly once whatever the status
\* of those before it; once the loop is over every provider has exactly one
\* recorded status and the summary is printed with it.
C10_SequentialEachOnce ==
    /\ Cardinality(running) <= 1
    /\ start_order = SubSeq(SCRIPTS, 1, Len(start_order))
    /\ record_order = SubSeq(SCRIPTS, 1, Len(record_order))
    /\ Len(record_order) \in {Len(start_order), Len(start_order) - 1}
    /\ running = IF run_waiting THEN {start_order[Len(start_order)]} ELSE {}
    /\ run_waiting => Len(record_order) = Len(start_order) - 1
    /\ ((run_pc = "loop" /\ run_i > Len(SCRIPTS)) \/ run_pc = "done") =>
          /\ start_order = SCRIPTS
          /\ record_order = SCRIPTS
          /\ DOMAIN results = {SCRIPTS[j] : j \in DOMAIN SCRIPTS}
    /\ run_pc = "done" =>
          /\ Len(summary) = Len(SCRIPTS)
          /\ \A j \in DOMAIN SCRIPTS :
                /\ summary[j].name = SCRIPTS[j]
                /\ summary[j].status = results[SCRIPTS[j]].status
                /\ summary[j].status \in {"OK", "ERROR", "TIMEOUT", "FAILED"}

\* the summary after a timeout, a failed launch and a normal run
C10_Witness ==
    /\ run_pc = "done"
    /\ results["IMF DataMapper"].status = "TIMEOUT"
    /\ results["World Bank (WDI)"].status = "FAILED"
    /\ results["FRED"].status = "OK"
    /\ start_order = SCRIPTS

\* the periods in which the provider reported a non-null value for a code
YearsObserved(code) == {y \in Years : HasObservation(code, y)}

\* C11: every row of the metadata table has years_available "{min}-{max}" of
\* the periods in which its indicator has a non-null observation, and the
\* empty string only when the indicator has none.
C11_SpanOfObservedPeriods ==
    dl_pc = "done" =>
        \A j \in 1..Len(meta_file.rows) :
            LET row == meta_file.rows[j]
                ys == YearsObserved(row.code)
            IN  row.years_available =
                    IF ys = {} THEN <<>> ELSE <<Min(ys), Max(ys)>>

\* the page count a returned listing body reports (1 when it reports none)
ReportedPages(resp) == IF resp.hasPages THEN resp.pages ELSE 1

\* request number n was one to stop at: it failed, its record list is empty,
\* or n has reached the page count its answer reports
StopsAt(n) ==
    \/ fa_served[n] = None
    \/ fa_served[n].records = <<>>
    \/ n >= ReportedPages(fa_served[n])

\* the records of the answers, in the order of the requests
RECURSIVE RecordsOf(_)
RecordsOf(served) ==
    IF served = <<>> THEN <<>> ELSE Head(served).records \o RecordsOf(Tail(served))

\* C12: fetch_all_indicators requests pages 1, 2, 3, ... in order, each once,
\* goes on exactly as long as no page was one to stop at, stops at the first
\* such page, and holds the concatenation, in page order, of the records of
\* the pages fetched.
C12_PagesInOrderUntilStop ==
    /\ fa_requests = [n \in 1..Len(fa_requests) |-> n]
    /\ Len(fa_served) = Len(fa_requests)
    /\ fa_indicators = RecordsOf(fa_served)
    /\ fa_pc = "loop" =>
          /\ fa_page = Len(fa_requests) + 1
          /\ \A n \in 1..Len(fa_served) : ~StopsAt(n)
    /\ fa_pc = "done" =>
          /\ Len(fa_requests) >= 1
          /\ StopsAt(Len(fa_served))
          /\ \A n \in 1..(Len(fa_served) - 1) : ~StopsAt(n)

\* the server reports MaxPages pages and every request succeeds with records
C12_Witness ==
    /\ fa_pc = "done"
    /\ fa_requests = [n \in 1..MaxPages |-> n]
    /\ \A n \in 1..MaxPages :
          /\ fa_served[n] # None
          /\ fa_served[n].hasPages /\ fa_served[n].pages = MaxPages
          /\ Len(fa_served[n].records) = 2
    /\ Len(fa_indicators) = 2 * MaxPages
    /\ fa_indicators = RecordsOf(fa_served)

====
